---- MODULE Spec2Model ----
(***************************************************************************)
(* A model of two parts of snarkVM:                                        *)
(*                                                                         *)
(*   eval/src/setup/instruction/array_slice_get.rs                         *)
(*       EvaluatorState::evaluate_array_slice_get, the handler of the      *)
(*       ArraySliceGet instruction (SliceSpec);                            *)
(*   dpc/src/testnet1/transaction/transaction.rs                           *)
(*       Transaction: new, transaction_id, write_le, read_le and the       *)
(*       derived equality (TxSpec).                                        *)
(*                                                                         *)
(* usize and u32 keep their wrap-around behaviour but are scaled down to   *)
(* UsizeBits and U32Bits bits, so that the overflow cases of the handler   *)
(* are inside the explored inputs.                                         *)
(***************************************************************************)
EXTENDS Integers, Sequences, FiniteSets, TLC

VARIABLES
    registers,      \* the register file of the current evaluation frame
    frame,          \* the register file as it was when the handler was entered
    log,            \* scopes opened, constraints enforced and stores, in order
    ret,            \* what the handler returned ("none" before it ran)
    phase,          \* "ready" -> "setup" -> "prove"
    setupLog,       \* the log of the setup run, kept for the proving run
    setupRet,       \* what the setup run returned
    txs,            \* the two transactions in hand ("a" and "b")
    stage,          \* position of the transaction scenario
    wire,           \* bytes produced by write_le
    ids,            \* transaction_id of each transaction
    equal           \* result of comparing the two transactions with ==

sliceVars == <<registers, frame, log, ret, phase, setupLog, setupRet>>
txVars == <<txs, stage, wire, ids, equal>>
vars == <<registers, frame, log, ret, phase, setupLog, setupRet, txs, stage, wire, ids, equal>>

----------------------------------------------------------------------------
(* Bounds *)

\* width of usize in the model (64 on the real targets)
UsizeBits == 3
\* width of u32 in the model (32 in the program)
U32Bits == 2
\* longest array in the register file
MaxArrayLen == 4

UsizeMod == 2 ^ UsizeBits
U32Mod == 2 ^ U32Bits

NoValue == 0 - 1

----------------------------------------------------------------------------
(* Values (ConstrainedValue) *)

Value(tag, const, val, elems) == [tag |-> tag, const |-> const, val |-> val, elems |-> elems]

Unset == Value("Unset", TRUE, 0, <<>>)
BooleanValue == Value("Boolean", TRUE, 0, <<>>)
ArrayValue(elems) == Value("Array", TRUE, 0, elems)
\* an Integer whose value is a constant of the program
ConstInteger(v) == Value("Integer", TRUE, v, <<>>)
\* an Integer allocated in the constraint system; val is its witness value,
\* NoValue while no assignment is known (setup)
SecretInteger(v) == Value("Integer", FALSE, v, <<>>)

\* The arrays of the register file: the handler never inspects an element, so
\* the elements are distinct handles 1..n.
Arrays == {ArrayValue([i \in 1..n |-> i]) : n \in 0..MaxArrayLen}

UsizeValues == 0..(UsizeMod - 1)
U32Values == 0..(U32Mod - 1)

ArrayOperands == Arrays \cup {ConstInteger(0), Unset}
IndexOperands == {ConstInteger(v) : v \in UsizeValues} \cup {SecretInteger(NoValue), BooleanValue, Unset}

\* Instruction::ArraySliceGet(QueryData { destination, values })
ArrayReg == 0
FromReg == 1
ToReg == 2
LengthReg == 3
Destination == 4
Regs == 0..4

----------------------------------------------------------------------------
(* Log events *)

Ns(name, k) == [op |-> "ns", name |-> name, k |-> k]
Enforce(op, name, k) == [op |-> op, name |-> name, k |-> k]
Store(r) == [op |-> "store", name |-> "destination", k |-> r]

IsConstraint(e) == e.op \notin {"ns", "store"}
Constraints(l) == SelectSeq(l, IsConstraint)
IsTopology(e) == e.op # "store"
Topology(l) == SelectSeq(l, IsTopology)

\* what the handler hands back: the return value, the events, and the value
\* stored in the destination register (when stored)
Result(r, l, stored, out) == [ret |-> r, log |-> l, stored |-> stored, out |-> out]
Fail(r, l) == Result(r, l, FALSE, Unset)

----------------------------------------------------------------------------
(* Operations the handler calls on values and on the constraint system *)

\* Integer::to_usize: Some(v) for a constant, None for an allocated integer
IsSome(int) == int.const
\* `x as u32`
AsU32(x) == x % U32Mod

\* operations::evaluate_eq(from, Integer::new(U32(i))): the witness value of the
\* boolean it allocates
evaluate_eq(from, i) ==
    IF from.val = NoValue THEN "unknown"
    ELSE IF from.val = AsU32(i) THEN "true" ELSE "false"

\* ConstrainedValue::conditionally_select(cond, first, second)
conditionally_select(cond, first, second) ==
    IF cond = "true" THEN first
    ELSE IF cond = "false" THEN second
    ELSE ArrayValue([k \in 1..Len(first.elems) |-> NoValue])

\* slice.windows(size).len()
NumWindows(array, size) ==
    IF size > Len(array.elems) THEN 0 ELSE Len(array.elems) - size + 1

\* array[left + 1..right]: the slice without its first element
slice_skips_first(array, left, right) == ArrayValue(SubSeq(array.elems, left + 2, right))

\* array[left..right].to_owned(), for left <= right <= array.len()
slice_to_owned(array, left, right) == ArrayValue(SubSeq(array.elems, left + 1, right))

----------------------------------------------------------------------------
(* evaluate_array_slice_get, lines 31-56: the four operands *)

NsArray == Ns("evaluate array slice get array", 0)
NsFrom == Ns("evaluate array slice get from", 0)
NsTo == Ns("evaluate array slice get to", 0)
NsLength == Ns("evaluate array slice get length", 0)

\* The error the operand resolution ends with, "none" when the four operands
\* resolve, with the scopes opened by then.
resolve_operands(regs) ==
    LET array == regs[ArrayReg]
        from == regs[FromReg]
        to == regs[ToReg]
        length == regs[LengthReg]
    IN  IF array.tag = "Unset" THEN Fail("unset register", <<NsArray>>)
        ELSE IF array.tag # "Array" THEN Fail("illegal value for array slice", <<NsArray>>)
        ELSE IF from.tag = "Unset" THEN Fail("unset register", <<NsArray, NsFrom>>)
        ELSE IF from.tag # "Integer"
            THEN Fail("invalid value for array slice from index", <<NsArray, NsFrom>>)
        ELSE IF to.tag = "Unset" THEN Fail("unset register", <<NsArray, NsFrom, NsTo>>)
        ELSE IF to.tag # "Integer"
            THEN Fail("invalid value for array slice to index", <<NsArray, NsFrom, NsTo>>)
        ELSE IF length.tag = "Unset"
            THEN Fail("unset register", <<NsArray, NsFrom, NsTo, NsLength>>)
        ELSE IF length.tag # "Integer"
            THEN Fail("invalid value for array slice length", <<NsArray, NsFrom, NsTo, NsLength>>)
        ELSE IF ~IsSome(length)
            THEN Fail("cannot have non-const array length for array slice",
                      <<NsArray, NsFrom, NsTo, NsLength>>)
        ELSE Fail("none", <<NsArray, NsFrom, NsTo, NsLength>>)

----------------------------------------------------------------------------
(* lines 58-68: const_dimensions *)

Dims(kind, left, right) == [kind |-> kind, left |-> left, right |-> right]

\* const_dimensions without the `to < length` test of line 62
const_dimensions_unchecked(from_resolved, to_resolved, length, overflow_checks) ==
    IF IsSome(from_resolved) /\ IsSome(to_resolved)
        THEN Dims("Some", from_resolved.val, to_resolved.val)
    ELSE IF IsSome(from_resolved)
        THEN IF from_resolved.val + length >= UsizeMod /\ overflow_checks
                THEN Dims("Panic", 0, 0)
                ELSE Dims("Some", from_resolved.val, (from_resolved.val + length) % UsizeMod)
    ELSE IF IsSome(to_resolved)
        THEN IF to_resolved.val < length /\ overflow_checks
                THEN Dims("Panic", 0, 0)
                ELSE Dims("Some", (to_resolved.val - length + UsizeMod) % UsizeMod, to_resolved.val)
    ELSE Dims("None", 0, 0)

\* kind "Some": (left, right); "None": no constant bound; "Err": the early
\* return of line 63; "Panic": `from + length` overflows with overflow checks on.
const_dimensions(from_resolved, to_resolved, length, overflow_checks) ==
    IF IsSome(from_resolved) /\ IsSome(to_resolved)
        THEN Dims("Some", from_resolved.val, to_resolved.val)
    ELSE IF IsSome(from_resolved)
        THEN IF from_resolved.val + length >= UsizeMod /\ overflow_checks
                THEN Dims("Panic", 0, 0)
                ELSE Dims("Some", from_resolved.val, (from_resolved.val + length) % UsizeMod)
    ELSE IF IsSome(to_resolved)
        THEN IF to_resolved.val < length
                THEN Dims("Err", 0, 0)
                ELSE Dims("Some", to_resolved.val - length, to_resolved.val)
    ELSE Dims("None", 0, 0)

----------------------------------------------------------------------------
(* lines 70-77: both ends known *)

\* the constant path with the store placed before the test of line 74
constant_slice_stores_early(array, left, right, length, overflow_checks, l) ==
    IF right < left /\ overflow_checks
        THEN Fail("panic", l)
    ELSE IF (right - left + UsizeMod) % UsizeMod # length
        THEN Fail("array_invalid_slice_length", l)
    ELSE IF right > Len(array.elems)
        THEN Result("array_index_out_of_bounds", l \o <<Store(Destination)>>, TRUE,
                    ArrayValue(<<>>))
    ELSE IF left > right
        THEN Fail("panic", l)
    ELSE Result("Ok", l \o <<Store(Destination)>>, TRUE, slice_to_owned(array, left, right))

constant_slice(array, left, right, length, overflow_checks, l) ==
    IF right < left /\ overflow_checks
        THEN Fail("panic", l)                       \* `right - left` overflows
    ELSE IF (right - left + UsizeMod) % UsizeMod # length
        THEN Fail("array_invalid_slice_length", l)
    ELSE IF right > Len(array.elems)
        THEN Fail("array_index_out_of_bounds", l)
    ELSE IF left > right
        THEN Fail("panic", l)                       \* array[left..right], left > right
    ELSE Result("Ok", l \o <<Store(Destination)>>, TRUE, slice_to_owned(array, left, right))

----------------------------------------------------------------------------
(* lines 107-136: the scan over the windows of the array *)

NsEqCheck(i) == Ns("array index eq-check", i)
NsSelect(i) == Ns("array index", i)

\* One pass of `for i in 0..length`, from iteration i on. fault is the number of
\* the constraint-system call that returns an error (0: none does); the calls
\* of iteration i are numbers 4 + 2i (evaluate_eq) and 5 + 2i
\* (conditionally_select).
RECURSIVE ScanFrom(_, _, _, _, _, _, _)
ScanFrom(array, from_resolved, length, i, result, fault, l) ==
    IF i >= length \/ i >= NumWindows(array, length)
        THEN Result("Ok", l, FALSE, result)
    ELSE
        LET array_value == ArrayValue(SubSeq(array.elems, i + 1, i + length))
            l1 == l \o <<NsEqCheck(i)>>
            equality == evaluate_eq(from_resolved, i)
            l2 == l1 \o <<Enforce("evaluate_eq", "array index eq-check", AsU32(i)), NsSelect(i)>>
            l3 == l2 \o [k \in 1..length |-> Enforce("conditionally_select", "array index", i)]
        IN  IF fault = 4 + 2 * i THEN Fail("synthesis error", l1)
            ELSE IF fault = 5 + 2 * i THEN Fail("cannot_enforce conditional select", l2)
            ELSE ScanFrom(array, from_resolved, length, i + 1,
                          conditionally_select(equality, array_value, result), fault, l3)

\* a scan that stops at the first window whose equality holds
RECURSIVE ScanUntilFound(_, _, _, _, _, _, _)
ScanUntilFound(array, from_resolved, length, i, result, fault, l) ==
    IF i >= length \/ i >= NumWindows(array, length)
        THEN Result("Ok", l, FALSE, result)
    ELSE
        LET array_value == ArrayValue(SubSeq(array.elems, i + 1, i + length))
            l1 == l \o <<NsEqCheck(i)>>
            equality == evaluate_eq(from_resolved, i)
            l2 == l1 \o <<Enforce("evaluate_eq", "array index eq-check", AsU32(i)), NsSelect(i)>>
            l3 == l2 \o [k \in 1..length |-> Enforce("conditionally_select", "array index", i)]
        IN  IF fault = 4 + 2 * i THEN Fail("synthesis error", l1)
            ELSE IF fault = 5 + 2 * i THEN Fail("cannot_enforce conditional select", l2)
            ELSE IF equality = "true" THEN Result("Ok", l3, FALSE, array_value)
            ELSE ScanUntilFound(array, from_resolved, length, i + 1,
                                conditionally_select(equality, array_value, result), fault, l3)

oblivious_scan_until_found(array, from_resolved, length, fault, l) ==
    IF length = 0 THEN Fail("panic", l)
    ELSE ScanUntilFound(array, from_resolved, length, 0, ArrayValue(<<>>), fault, l)

\* lines 107-136; array.windows(0) panics
oblivious_scan(array, from_resolved, length, fault, l) ==
    IF length = 0 THEN Fail("panic", l)
    ELSE ScanFrom(array, from_resolved, length, 0, ArrayValue(<<>>), fault, l)

----------------------------------------------------------------------------
(* lines 78-106: the constraints on the two secret bounds *)

NsSub == Ns("evaluate array  slice get enforce sub", 0)
NsLengthCheck == Ns("evaluate array range access length check", 0)
NsBoundsCheck == Ns("evaluate array slice get array_bounds_check", 0)

EnforceSub == Enforce("enforce_sub", "evaluate array  slice get enforce sub", 0)
EnforceLength(length) ==
    Enforce("enforce_equal", "evaluate array range access length check", AsU32(length))
EnforceBounds(array) ==
    Enforce("array_bounds_check", "evaluate array slice get array_bounds_check", Len(array.elems))

\* the checks without the call of array_bounds_check
oblivious_checks_no_bounds(array, length, fault, l) ==
    IF fault = 1 THEN Fail("synthesis error", l \o <<NsSub>>)
    ELSE IF fault = 2
        THEN Fail("cannot_enforce array length check", l \o <<NsSub, EnforceSub, NsLengthCheck>>)
    ELSE Fail("none", l \o <<NsSub, EnforceSub, NsLengthCheck, EnforceLength(length)>>)

\* The calls numbered 1, 2 and 3: enforce_sub, enforce_equal, array_bounds_check.
oblivious_checks(array, length, fault, l) ==
    IF fault = 1 THEN Fail("synthesis error", l \o <<NsSub>>)
    ELSE IF fault = 2
        THEN Fail("cannot_enforce array length check", l \o <<NsSub, EnforceSub, NsLengthCheck>>)
    ELSE IF Len(array.elems) >= U32Mod
        THEN Fail("array_length_out_of_bounds",
                  l \o <<NsSub, EnforceSub, NsLengthCheck, EnforceLength(length), NsBoundsCheck>>)
    ELSE IF fault = 3
        THEN Fail("synthesis error",
                  l \o <<NsSub, EnforceSub, NsLengthCheck, EnforceLength(length), NsBoundsCheck>>)
    ELSE Fail("none", l \o <<NsSub, EnforceSub, NsLengthCheck, EnforceLength(length),
                             NsBoundsCheck, EnforceBounds(array)>>)

\* lines 78-137
oblivious_slice(array, from_resolved, length, fault, l) ==
    LET checks == oblivious_checks(array, length, fault, l)
    IN  IF checks.ret # "none" THEN checks
        ELSE LET scan == oblivious_scan(array, from_resolved, length, fault, checks.log)
             IN  IF scan.ret # "Ok" THEN scan
                 ELSE Result("Ok", scan.log \o <<Store(Destination)>>, TRUE, scan.out)

----------------------------------------------------------------------------
(* The handler *)

evaluate_array_slice_get(regs, overflow_checks, fault) ==
    LET operands == resolve_operands(regs)
        array == regs[ArrayReg]
        from_resolved == regs[FromReg]
        to_resolved == regs[ToReg]
        length == regs[LengthReg].val
    IN  IF operands.ret # "none" THEN operands
        ELSE LET dims == const_dimensions(from_resolved, to_resolved, length, overflow_checks)
             IN  CASE dims.kind = "Panic" -> Fail("panic", operands.log)
                   [] dims.kind = "Err" -> Fail("array_invalid_slice_length", operands.log)
                   [] dims.kind = "Some" ->
                        constant_slice(array, dims.left, dims.right, length,
                                       overflow_checks, operands.log)
                   [] dims.kind = "None" ->
                        oblivious_slice(array, from_resolved, length, fault, operands.log)

\* self.store(*destination, out)
store(regs, result) ==
    IF result.stored THEN [regs EXCEPT ![Destination] = result.out] ELSE regs

\* The constraint-system calls that can return an error in a run on regs: none
\* unless the run reaches line 79, else at most 3 + 2 * array.len(). 0 stands
\* for "no call fails".
Faults(regs) ==
    IF /\ resolve_operands(regs).ret = "none"
       /\ ~IsSome(regs[FromReg])
       /\ ~IsSome(regs[ToReg])
        THEN 0..(3 + 2 * Len(regs[ArrayReg].elems))
        ELSE {0}

\* the values an assignment can give to an operand: one per witness value
Witnesses(v) == IF v.tag = "Integer" /\ ~v.const THEN U32Values ELSE {0}

----------------------------------------------------------------------------
(* Setup, then proving: the same instruction is evaluated once with no witness *)
(* assignment and once with one.                                               *)

InitSlice ==
    /\ registers \in {[r \in Regs |->
                          CASE r = ArrayReg -> a
                            [] r = FromReg -> f
                            [] r = ToReg -> t
                            [] r = LengthReg -> n
                            [] OTHER -> Unset] :
                       a \in ArrayOperands, f \in IndexOperands,
                       t \in IndexOperands, n \in IndexOperands}
    /\ frame = registers
    /\ log = <<>>
    /\ ret = "none"
    /\ phase = "ready"
    /\ setupLog = <<>>
    /\ setupRet = "none"
    /\ txs = <<>>
    /\ stage = "idle"
    /\ wire = <<>>
    /\ ids = <<>>
    /\ equal = "none"

\* the register file of the proving run: the witnesses have values
Assign(v, w) == IF v.tag = "Integer" /\ ~v.const THEN SecretInteger(w) ELSE v

Run(regs, overflow_checks, fault) ==
    LET result == evaluate_array_slice_get(regs, overflow_checks, fault)
    IN  /\ frame' = regs
        /\ registers' = store(regs, result)
        /\ log' = result.log
        /\ ret' = result.ret

EvaluateSetup ==
    /\ phase = "ready"
    /\ \E overflow_checks \in BOOLEAN, fault \in Faults(registers) :
          Run(registers, overflow_checks, fault)
    /\ phase' = "setup"
    /\ UNCHANGED <<setupLog, setupRet>>
    /\ UNCHANGED txVars

EvaluateProve ==
    /\ phase = "setup"
    /\ \E from_witness \in Witnesses(frame[FromReg]), to_witness \in Witnesses(frame[ToReg]),
          length_witness \in Witnesses(frame[LengthReg]),
          overflow_checks \in BOOLEAN, fault \in Faults(frame) :
          Run([r \in Regs |->
                  CASE r = FromReg -> Assign(frame[r], from_witness)
                    [] r = ToReg -> Assign(frame[r], to_witness)
                    [] r = LengthReg -> Assign(frame[r], length_witness)
                    [] OTHER -> frame[r]],
              overflow_checks, fault)
    /\ phase' = "prove"
    /\ setupLog' = log
    /\ setupRet' = ret
    /\ UNCHANGED txVars

NextSlice == EvaluateSetup \/ EvaluateProve

SliceSpec == InitSlice /\ [][NextSlice]_vars

----------------------------------------------------------------------------
(* Properties of evaluate_array_slice_get *)

Returned == phase # "ready"
OperandsResolved == resolve_operands(frame).ret = "none"
A == frame[ArrayReg].elems
FromOp == frame[FromReg]
ToOp == frame[ToReg]
LengthOp == frame[LengthReg].val
\* A[left..left + n], written element by element
SubSequence(left, n) == [k \in 1..n |-> A[left + k]]
Stored(elems) == registers[Destination] = ArrayValue(elems)
HasStore == \E k \in 1..Len(log) : log[k].op = "store"

BothConstant == OperandsResolved /\ FromOp.const /\ ToOp.const
BothSecret == OperandsResolved /\ ~FromOp.const /\ ~ToOp.const
OnlyFromConstant == OperandsResolved /\ FromOp.const /\ ~ToOp.const
OnlyToConstant == OperandsResolved /\ ~FromOp.const /\ ToOp.const

\* C1: with constant from = left, to = right and constant length,
\* 0 <= left <= right <= len(A) and right - left = length, the handler returns
\* Ok, the destination register holds exactly A[left..right], and no constraint
\* has been enforced.
C1_ConstantSlice ==
    (/\ Returned
     /\ BothConstant
     /\ FromOp.val <= ToOp.val
     /\ ToOp.val <= Len(A)
     /\ ToOp.val - FromOp.val = LengthOp)
    => (/\ ret = "Ok"
        /\ Stored(SubSequence(FromOp.val, LengthOp))
        /\ Constraints(log) = <<>>)

C1_Witness ==
    /\ Returned
    /\ BothConstant
    /\ FromOp.val = 1
    /\ ToOp.val = 3
    /\ LengthOp = 2
    /\ Len(A) = 4
    /\ ret = "Ok"
    /\ Stored(<<A[2], A[3]>>)

\* C2 (as claimed): on the path with neither bound constant, for a witness
\* from* in [0, len(A) - length], the value stored in the destination register
\* is A[from*..from* + length].
C2_ObliviousResult ==
    (/\ phase = "prove"
     /\ BothSecret
     /\ LengthOp <= Len(A)
     /\ FromOp.val <= Len(A) - LengthOp
     /\ ret = "Ok")
    => Stored(SubSequence(FromOp.val, LengthOp))

\* the prefix of the oblivious path: the three constraints, in this order, are
\* the first constraints of the run and come before the store
ObliviousPrefix ==
    /\ Len(Constraints(log)) >= 3
    /\ SubSeq(Constraints(log), 1, 3) =
          <<EnforceSub, EnforceLength(LengthOp),
            Enforce("array_bounds_check", "evaluate array slice get array_bounds_check", Len(A))>>
    /\ log[Len(log)].op = "store"

C4_InvalidLengthIsAnError ==
    (/\ Returned
     /\ BothConstant
     /\ ToOp.val - FromOp.val # LengthOp)
    => ret = "array_invalid_slice_length"

\* C5 (as claimed): with from constant and to not, the handler returns the
\* index-out-of-bounds error when from + length > len(A) and otherwise stores
\* A[from..from + length].
C5_FromConstant ==
    (Returned /\ OnlyFromConstant)
    => IF FromOp.val + LengthOp > Len(A)
          THEN ret = "array_index_out_of_bounds"
          ELSE ret = "Ok" /\ Stored(SubSequence(FromOp.val, LengthOp))

\* C6: with to constant, from not, and to < length, the handler returns the
\* invalid-slice-length error, no constraint has been enforced and the register
\* file is as it was.
C6_ToBelowLength ==
    (/\ Returned
     /\ OnlyToConstant
     /\ ToOp.val < LengthOp)
    => (/\ ret = "array_invalid_slice_length"
        /\ Constraints(log) = <<>>
        /\ ~HasStore
        /\ registers = frame)

C6_Witness ==
    /\ phase = "prove"
    /\ OnlyToConstant
    /\ ToOp.val = 2
    /\ LengthOp = 3
    /\ FromOp.val = 1
    /\ ret = "array_invalid_slice_length"

\* C7: on the path with neither bound constant, the scopes opened and the
\* constraints enforced (names, order, number) by the proving run, whatever the
\* witness values of from and to, are those of the setup run.
C7_SameTopology ==
    (/\ phase = "prove"
     /\ BothSecret
     /\ ret = "Ok"
     /\ setupRet = "Ok")
    => Topology(log) = Topology(setupLog)

C7_Witness ==
    /\ phase = "prove"
    /\ BothSecret
    /\ ret = "Ok"
    /\ setupRet = "Ok"
    /\ Len(A) = 3
    /\ LengthOp = 2
    /\ FromOp.val = 0
    /\ ToOp.val = 3
    /\ Len(Topology(log)) > 10

----------------------------------------------------------------------------
(* Transaction (dpc/src/testnet1/transaction/transaction.rs) *)

\* C::NUM_INPUT_RECORDS and C::NUM_OUTPUT_RECORDS of the components the
\* transaction is instantiated with
NUM_INPUT_RECORDS == 2
NUM_OUTPUT_RECORDS == 2
\* bytes of a serialized serial number, commitment, digest, circuit id, proof,
\* root or signature of the components
ElementSize == 2
\* [u8; 32]
MemorandumSize == 32
\* AleoAmount: i64
ValueBalanceSize == 8
\* Network: u8
NetworkSize == 1
\* how many slots of a transaction differ from the default one
MaxNonDefault == 1

ByteMod == 2 ^ 8

Fields == {"network", "ledger_digest", "old_serial_numbers", "new_commitments",
           "program_commitment", "local_data_root", "value_balance", "signatures",
           "encrypted_records", "transaction_proof", "memorandum", "inner_circuit_id"}

\* a slot is a field, or one element of a vector field
Slots ==
    {<<f, 0>> : f \in {"network", "ledger_digest", "program_commitment", "local_data_root",
                       "value_balance", "transaction_proof", "memorandum", "inner_circuit_id"}}
    \cup {<<f, i>> : f \in {"old_serial_numbers", "signatures"}, i \in 1..NUM_INPUT_RECORDS}
    \cup {<<f, i>> : f \in {"new_commitments", "encrypted_records"}, i \in 1..NUM_OUTPUT_RECORDS}

RECURSIVE SlotSets(_)
SlotSets(k) ==
    IF k = 0 THEN {{}}
    ELSE SlotSets(k - 1) \cup {s \cup {x} : s \in SlotSets(k - 1), x \in Slots}

\* the value of a slot: its default, or the other value when the slot is in s
Pick(s, slot, default, other) == IF slot \in s THEN other ELSE default

Memorandum(first) == [i \in 1..MemorandumSize |-> IF i = 1 THEN first ELSE 0]

\* the arguments of Transaction::new the scenarios draw from
Arguments(s) ==
    [old_serial_numbers |->
        [i \in 1..NUM_INPUT_RECORDS |-> Pick(s, <<"old_serial_numbers", i>>, 10 + i, 300 + i)],
     new_commitments |->
        [i \in 1..NUM_OUTPUT_RECORDS |-> Pick(s, <<"new_commitments", i>>, 20 + i, 400 + i)],
     memorandum |-> Memorandum(Pick(s, <<"memorandum", 0>>, 0, 7)),
     ledger_digest |-> Pick(s, <<"ledger_digest", 0>>, 31, 331),
     inner_circuit_id |-> Pick(s, <<"inner_circuit_id", 0>>, 41, 341),
     transaction_proof |-> Pick(s, <<"transaction_proof", 0>>, 51, 351),
     program_commitment |-> Pick(s, <<"program_commitment", 0>>, 61, 361),
     local_data_root |-> Pick(s, <<"local_data_root", 0>>, 71, 371),
     value_balance |-> Pick(s, <<"value_balance", 0>>, 5, 0 - 2),
     network |-> Pick(s, <<"network", 0>>, 0, 1),
     signatures |->
        [i \in 1..NUM_INPUT_RECORDS |-> Pick(s, <<"signatures", i>>, 80 + i, 380 + i)],
     encrypted_records |->
        [i \in 1..NUM_OUTPUT_RECORDS |-> Pick(s, <<"encrypted_records", i>>, <<>>, <<9, i>>)]]

ArgumentSets == {Arguments(s) : s \in SlotSets(MaxNonDefault)}

\* Transaction::new, lines 107-110: the four assert_eq!
new_asserts(args) ==
    /\ Len(args.old_serial_numbers) = NUM_INPUT_RECORDS
    /\ Len(args.new_commitments) = NUM_OUTPUT_RECORDS
    /\ Len(args.signatures) = NUM_INPUT_RECORDS
    /\ Len(args.encrypted_records) = NUM_OUTPUT_RECORDS

\* Transaction::new, lines 112-125: the struct
new(args) ==
    [old_serial_numbers |-> args.old_serial_numbers,
     new_commitments |-> args.new_commitments,
     memorandum |-> args.memorandum,
     ledger_digest |-> args.ledger_digest,
     inner_circuit_id |-> args.inner_circuit_id,
     transaction_proof |-> args.transaction_proof,
     program_commitment |-> args.program_commitment,
     local_data_root |-> args.local_data_root,
     value_balance |-> args.value_balance,
     network |-> args.network,
     signatures |-> args.signatures,
     encrypted_records |-> args.encrypted_records]

----------------------------------------------------------------------------
(* Byte encodings of the parts of a transaction *)

\* n bytes, little-endian, of v >= 0
RECURSIVE LittleEndian(_, _)
LittleEndian(v, n) ==
    IF n = 0 THEN <<>> ELSE <<v % ByteMod>> \o LittleEndian(v \div ByteMod, n - 1)

RECURSIVE FromLittleEndian(_)
FromLittleEndian(bytes) ==
    IF bytes = <<>> THEN 0 ELSE bytes[1] + ByteMod * FromLittleEndian(Tail(bytes))

Complement(bytes) == [i \in 1..Len(bytes) |-> (ByteMod - 1) - bytes[i]]

\* a serial number, commitment, digest, circuit id, proof, root or signature
write_element(v) == LittleEndian(v, ElementSize)
read_element(bytes) == FromLittleEndian(bytes)

\* i64::write_le / read_le: two's complement
write_value_balance(v) ==
    IF v >= 0 THEN LittleEndian(v, ValueBalanceSize)
    ELSE Complement(LittleEndian((0 - v) - 1, ValueBalanceSize))
read_value_balance(bytes) ==
    IF bytes[Len(bytes)] < ByteMod \div 2 THEN FromLittleEndian(bytes)
    ELSE (0 - FromLittleEndian(Complement(bytes))) - 1

\* Network::write_le / read_le: its id
write_network(v) == LittleEndian(v, NetworkSize)
read_network(bytes) == FromLittleEndian(bytes)

\* EncryptedRecord: the length of the ciphertext, then the ciphertext
write_encrypted_record(v) == <<Len(v)>> \o v

RECURSIVE Concat(_)
Concat(seqs) == IF seqs = <<>> THEN <<>> ELSE seqs[1] \o Concat(Tail(seqs))

\* The reader: what is left to read, whether every read so far had its bytes,
\* and the value read last.
Reader(bytes, ok, value) == [rest |-> bytes, ok |-> ok, value |-> value]

\* read exactly n bytes
read_exact(r, n) ==
    IF r.ok /\ Len(r.rest) >= n
        THEN Reader(SubSeq(r.rest, n + 1, Len(r.rest)), TRUE, SubSeq(r.rest, 1, n))
        ELSE Reader(<<>>, FALSE, <<>>)

read_encrypted_record(r) ==
    LET size == read_exact(r, 1)
    IN  IF size.ok THEN read_exact(size, size.value[1]) ELSE size

\* `for _ in 0..count { items.push(read(reader)) }` with items of `size` bytes
RECURSIVE read_elements(_, _, _)
read_elements(r, count, items) ==
    IF count = 0 THEN Reader(r.rest, r.ok, items)
    ELSE LET one == read_exact(r, ElementSize)
         IN  read_elements(one, count - 1, Append(items, read_element(one.value)))

RECURSIVE read_encrypted_records(_, _, _)
read_encrypted_records(r, count, items) ==
    IF count = 0 THEN Reader(r.rest, r.ok, items)
    ELSE LET one == read_encrypted_record(r)
         IN  read_encrypted_records(one, count - 1, Append(items, one.value))

----------------------------------------------------------------------------
(* transaction_id, write_le, read_le and == *)

\* `for item in &self.items { item.write_le(&mut writer) }`
WriteElements(items) == Concat([i \in 1..Len(items) |-> write_element(items[i])])
WriteEncryptedRecords(items) ==
    Concat([i \in 1..Len(items) |-> write_encrypted_record(items[i])])

\* Blake2s: an injective stand-in, the digest is named by what was hashed
Blake2s(bytes) == [blake2s |-> bytes]

\* the identifier with the network id hashed in as well
transaction_id_with_network(tx) ==
    Blake2s(WriteElements(tx.old_serial_numbers)
            \o WriteElements(tx.new_commitments)
            \o tx.memorandum
            \o write_network(tx.network))

\* Transaction id = Hash of (serial numbers || commitments || memo)
transaction_id(tx) ==
    Blake2s(WriteElements(tx.old_serial_numbers)
            \o WriteElements(tx.new_commitments)
            \o tx.memorandum)

write_le(tx) ==
    WriteElements(tx.old_serial_numbers)
    \o WriteElements(tx.new_commitments)
    \o tx.memorandum
    \o write_element(tx.ledger_digest)
    \o write_element(tx.inner_circuit_id)
    \o write_element(tx.transaction_proof)
    \o write_element(tx.program_commitment)
    \o write_element(tx.local_data_root)
    \o write_value_balance(tx.value_balance)
    \o write_network(tx.network)
    \o WriteElements(tx.signatures)
    \o WriteEncryptedRecords(tx.encrypted_records)

\* read_le reading the local-data root before the program commitment
read_le_roots_swapped(bytes) ==
    LET old_serial_numbers == read_elements(Reader(bytes, TRUE, <<>>), NUM_INPUT_RECORDS, <<>>)
        new_commitments == read_elements(old_serial_numbers, NUM_OUTPUT_RECORDS, <<>>)
        memorandum == read_exact(new_commitments, MemorandumSize)
        ledger_digest == read_exact(memorandum, ElementSize)
        inner_circuit_id == read_exact(ledger_digest, ElementSize)
        transaction_proof == read_exact(inner_circuit_id, ElementSize)
        local_data_root == read_exact(transaction_proof, ElementSize)
        program_commitment == read_exact(local_data_root, ElementSize)
        value_balance == read_exact(program_commitment, ValueBalanceSize)
        network == read_exact(value_balance, NetworkSize)
        signatures == read_elements(network, NUM_INPUT_RECORDS, <<>>)
        encrypted_records == read_encrypted_records(signatures, NUM_OUTPUT_RECORDS, <<>>)
    IN  IF ~encrypted_records.ok THEN [ok |-> FALSE, tx |-> <<>>]
        ELSE [ok |-> TRUE,
              tx |-> [network |-> read_network(network.value),
                      ledger_digest |-> read_element(ledger_digest.value),
                      old_serial_numbers |-> old_serial_numbers.value,
                      new_commitments |-> new_commitments.value,
                      program_commitment |-> read_element(program_commitment.value),
                      local_data_root |-> read_element(local_data_root.value),
                      value_balance |-> read_value_balance(value_balance.value),
                      signatures |-> signatures.value,
                      encrypted_records |-> encrypted_records.value,
                      inner_circuit_id |-> read_element(inner_circuit_id.value),
                      transaction_proof |-> read_element(transaction_proof.value),
                      memorandum |-> memorandum.value]]

\* ok is FALSE when a read ran out of bytes (an Err of the reader)
read_le(bytes) ==
    LET old_serial_numbers == read_elements(Reader(bytes, TRUE, <<>>), NUM_INPUT_RECORDS, <<>>)
        new_commitments == read_elements(old_serial_numbers, NUM_OUTPUT_RECORDS, <<>>)
        memorandum == read_exact(new_commitments, MemorandumSize)
        ledger_digest == read_exact(memorandum, ElementSize)
        inner_circuit_id == read_exact(ledger_digest, ElementSize)
        transaction_proof == read_exact(inner_circuit_id, ElementSize)
        program_commitment == read_exact(transaction_proof, ElementSize)
        local_data_root == read_exact(program_commitment, ElementSize)
        value_balance == read_exact(local_data_root, ValueBalanceSize)
        network == read_exact(value_balance, NetworkSize)
        signatures == read_elements(network, NUM_INPUT_RECORDS, <<>>)
        encrypted_records == read_encrypted_records(signatures, NUM_OUTPUT_RECORDS, <<>>)
    IN  IF ~encrypted_records.ok THEN [ok |-> FALSE, tx |-> <<>>]
        ELSE [ok |-> TRUE,
              tx |-> [network |-> read_network(network.value),
                      ledger_digest |-> read_element(ledger_digest.value),
                      old_serial_numbers |-> old_serial_numbers.value,
                      new_commitments |-> new_commitments.value,
                      program_commitment |-> read_element(program_commitment.value),
                      local_data_root |-> read_element(local_data_root.value),
                      value_balance |-> read_value_balance(value_balance.value),
                      signatures |-> signatures.value,
                      encrypted_records |-> encrypted_records.value,
                      inner_circuit_id |-> read_element(inner_circuit_id.value),
                      transaction_proof |-> read_element(transaction_proof.value),
                      memorandum |-> memorandum.value]]

\* the fields marked #[derivative(PartialEq = "ignore")]
IgnoredByEq == {"program_commitment", "local_data_root", "signatures", "transaction_proof"}

\* an equality over the serial numbers, the commitments and the memorandum only
eq_of_three_fields(a, b) ==
    \A f \in {"old_serial_numbers", "new_commitments", "memorandum"} : a[f] = b[f]

\* an equality that ignores the other three marked fields but not the signatures
eq_with_signatures(a, b) ==
    \A f \in Fields \ {"program_commitment", "local_data_root", "transaction_proof"} : a[f] = b[f]

\* the derived PartialEq
eq(a, b) == \A f \in Fields \ IgnoredByEq : a[f] = b[f]

----------------------------------------------------------------------------
(* Scenarios on transactions: one is built, then a second is built or read *)
(* back from the bytes of the first; then both are identified and compared *)

InitTx ==
    /\ txs = <<>>
    /\ stage = "empty"
    /\ wire = <<>>
    /\ ids = <<>>
    /\ equal = "none"
    /\ registers = [r \in Regs |-> Unset]
    /\ frame = registers
    /\ log = <<>>
    /\ ret = "none"
    /\ phase = "idle"
    /\ setupLog = <<>>
    /\ setupRet = "none"

New ==
    /\ stage \in {"empty", "one"}
    /\ \E args \in ArgumentSets :
          /\ new_asserts(args)
          /\ txs' = Append(txs, new(args))
    /\ stage' = IF stage = "empty" THEN "one" ELSE "two"
    /\ UNCHANGED <<wire, ids, equal>>
    /\ UNCHANGED sliceVars

WriteLe ==
    /\ stage = "one"
    /\ wire' = write_le(txs[1])
    /\ stage' = "written"
    /\ UNCHANGED <<txs, ids, equal>>
    /\ UNCHANGED sliceVars

ReadLe ==
    /\ stage = "written"
    /\ LET read == read_le(wire)
       IN  IF read.ok
              THEN txs' = Append(txs, read.tx) /\ stage' = "two"
              ELSE txs' = txs /\ stage' = "read error"
    /\ UNCHANGED <<wire, ids, equal>>
    /\ UNCHANGED sliceVars

TransactionId ==
    /\ stage = "two"
    /\ ids' = [i \in 1..2 |-> transaction_id(txs[i])]
    /\ stage' = "identified"
    /\ UNCHANGED <<txs, wire, equal>>
    /\ UNCHANGED sliceVars

Eq ==
    /\ stage = "identified"
    /\ equal' = IF eq(txs[1], txs[2]) THEN "true" ELSE "false"
    /\ stage' = "compared"
    /\ UNCHANGED <<txs, wire, ids>>
    /\ UNCHANGED sliceVars

NextTx == New \/ WriteLe \/ ReadLe \/ TransactionId \/ Eq

TxSpec == InitTx /\ [][NextTx]_vars

----------------------------------------------------------------------------
(* Properties of Transaction *)

Identified == stage \in {"identified", "compared"}
SameOn(fs) == \A f \in fs : txs[1][f] = txs[2][f]
IdFields == {"old_serial_numbers", "new_commitments", "memorandum"}

\* C8: two transactions with the same serial numbers, commitments and
\* memorandum have the same transaction_id, whatever their other nine fields.
C8_IdOfThreeFields ==
    (Identified /\ SameOn(IdFields)) => ids[1] = ids[2]

C8_Witness ==
    /\ Identified
    /\ SameOn(IdFields)
    /\ txs[1].network # txs[2].network
    /\ ids[1] = ids[2]

\* C9: read_le of the bytes of write_le gives back a transaction whose twelve
\* fields equal those of the transaction written.
C9_RoundTrip ==
    /\ stage # "read error"
    /\ ((wire # <<>> /\ Len(txs) = 2) => \A f \in Fields : txs[2][f] = txs[1][f])

C9_Witness ==
    /\ wire # <<>>
    /\ Len(txs) = 2
    /\ txs[1].value_balance < 0
    /\ txs[2].value_balance = txs[1].value_balance

FourFields == {"transaction_proof", "signatures", "program_commitment", "local_data_root"}

\* C10: two transactions that differ at most in proof, signatures, program
\* commitment and local-data root are equal under == and have the same
\* transaction_id.
C10_IgnoredFields ==
    (stage = "compared" /\ SameOn(Fields \ FourFields))
    => (equal = "true" /\ ids[1] = ids[2])

C10_Witness ==
    /\ stage = "compared"
    /\ SameOn(Fields \ FourFields)
    /\ txs[1].signatures # txs[2].signatures
    /\ equal = "true"
    /\ ids[1] = ids[2]

----------------------------------------------------------------------------
(* The register file across a call of evaluate_array_slice_get *)

ErrorReturns ==
    {"unset register", "illegal value for array slice",
     "invalid value for array slice from index", "invalid value for array slice to index",
     "invalid value for array slice length",
     "cannot have non-const array length for array slice",
     "array_invalid_slice_length", "array_index_out_of_bounds",
     "array_length_out_of_bounds", "synthesis error",
     "cannot_enforce array length check", "cannot_enforce conditional select"}

StoreCount == Len(SelectSeq(log, LAMBDA e : e.op = "store"))

\* C11: the destination register is written only as the last step, after the
\* four operands resolved and every check passed: after an error return the
\* register file is as it was at entry and nothing was stored; after Ok exactly
\* the destination register differs from its value at entry, and the one store
\* is the last effect of the call.
C11_StoreIsLast ==
    Returned =>
        /\ ret \in ErrorReturns \cup {"Ok", "panic"}
        /\ (ret # "Ok" => (registers = frame /\ StoreCount = 0))
        /\ (ret = "Ok" =>
              /\ OperandsResolved
              /\ \A r \in Regs \ {Destination} : registers[r] = frame[r]
              /\ registers[Destination] # frame[Destination]
              /\ StoreCount = 1
              /\ log[Len(log)].op = "store")

\* an error return after constraints were enforced: a failing
\* conditional select in the scan
C11_Witness ==
    /\ phase = "prove"
    /\ ret = "cannot_enforce conditional select"
    /\ Len(Constraints(log)) > 3
    /\ registers = frame
    /\ frame[ArrayReg].tag = "Array"

----------------------------------------------------------------------------
(* What == on transactions compares *)

EightFields == {"network", "ledger_digest", "old_serial_numbers", "new_commitments",
                "value_balance", "encrypted_records", "memorandum", "inner_circuit_id"}

\* C12 (as claimed): two transactions are equal if and only if their serial
\* numbers, commitments and memorandum are equal.
C12_EqualIffThreeFields ==
    stage = "compared" => (equal = "true" <=> SameOn(IdFields))

\* C12 (amended): two transactions are equal if and only if they agree on
\* network, ledger digest, serial numbers, commitments, value balance,
\* encrypted records, memorandum and inner-circuit identifier.
C12_EqualIffEightFields ==
    stage = "compared" => (equal = "true" <=> SameOn(EightFields))

\* same serial numbers, commitments and memorandum, another network: not equal
C12_Witness ==
    /\ stage = "compared"
    /\ SameOn(IdFields)
    /\ txs[1].network # txs[2].network
    /\ equal = "false"

====
